---- MODULE Spec2Model ----
(***************************************************************************)
(* CCSMatrix (src/main.py): a sparse matrix in Compressed Column Storage.  *)
(* The state is the five fields of the class; one action per public        *)
(* method.  Numbers: rows, cols, row indices and column pointers are       *)
(* Python ints; an element of values is a Python int (random generation)   *)
(* or a Python float (parsed from text), modelled as [float, n] with n its *)
(* integer numeric value.  Densities and random() samples are in tenths.   *)
(***************************************************************************)
EXTENDS Integers, Sequences, FiniteSets, TLC

VARIABLES
    rows,           \* self.rows
    cols,           \* self.cols
    values,         \* self.values
    row_indices,    \* self.row_indices
    col_pointers,   \* self.col_pointers
    disk,           \* content of the file SavedFile on disk
    op,             \* the method called last
    filename,       \* the filename argument of the last call ("" when none)
    density,        \* the density argument of the last call (0 when none)
    err,            \* the exception the last call raised, or "none"
    out,            \* what the last call returned or reported
    streak          \* successive rearrange_columns calls so far (capped at 2)

matrix == <<rows, cols, values, row_indices, col_pointers>>

vars == <<rows, cols, values, row_indices, col_pointers,
          disk, op, filename, density, err, out, streak>>

(***************************************************************************)
(* Bounds of the model.                                                    *)
(***************************************************************************)
MaxRows == 2        \* shapes of the matrices the column operations start from
MaxCols == 3
MaxNnz == 2
MaxFileRows == 2    \* shapes of the matrices written in the input files
MaxFileCols == 2
MaxFileNnz == 1
MaxRandDim == 2     \* create_random_matrix: rows, cols <= MaxRandDim
MaxRandCells == 4   \* create_random_matrix: rows * cols <= MaxRandCells

(***************************************************************************)
(* Program constants.                                                      *)
(***************************************************************************)
RandIntLow == 1     \* random.randint(1, 100)
RandIntHigh == 100
DensityOne == 10    \* the density 1 (upper end of (0, 1]), in tenths

(***************************************************************************)
(* Python's list indexing, slicing and sum.                                *)
(***************************************************************************)
PyIndexOK(s, i) == -Len(s) <= i /\ i < Len(s)

PyIndex(s, i) == s[(IF i < 0 THEN i + Len(s) ELSE i) + 1]

PyClamp(i, n) ==
    IF i < 0 THEN (IF i + n < 0 THEN 0 ELSE i + n)
    ELSE (IF i > n THEN n ELSE i)

PySlice(s, start, end) ==
    LET a == PyClamp(start, Len(s))
        b == PyClamp(end, Len(s))
    IN IF a < b THEN SubSeq(s, a + 1, b) ELSE <<>>

RECURSIVE PySum(_)
PySum(s) == IF Len(s) = 0 THEN 0 ELSE s[1].n + PySum(Tail(s))

IntValue(n) == [float |-> FALSE, n |-> n]

FloatValue(n) == [float |-> TRUE, n |-> n]

(***************************************************************************)
(* calculate_column_sums                                                   *)
(***************************************************************************)
\* col_pointers[col + 1] raises IndexError for some col in range(cols)
ColumnSumsRaises(ptrs, n) == n > 0 /\ Len(ptrs) < n + 1

\* the slice of a column taken one element short: values[start:end - 1]
ColumnSumsShort(vals, ptrs, n) ==
    [c \in 1..n |-> PySum(PySlice(vals, ptrs[c], ptrs[c + 1] - 1))]

\* element c (1-based) is the sum of column c - 1
ColumnSums(vals, ptrs, n) ==
    [c \in 1..n |-> PySum(PySlice(vals, ptrs[c], ptrs[c + 1]))]

(***************************************************************************)
(* sorted(range(cols), key=lambda i: column_sums[i]): a stable sort, here  *)
(* by insertion of 0, 1, ... each after every index whose key is not       *)
(* greater.                                                                *)
(***************************************************************************)
\* a sort that is not stable: an index goes before the indices of equal key
RECURSIVE InsertByKeyUnstable(_, _, _)
InsertByKeyUnstable(s, i, key) ==
    IF Len(s) = 0 THEN <<i>>
    ELSE IF key[s[Len(s)] + 1] < key[i + 1] THEN Append(s, i)
    ELSE Append(InsertByKeyUnstable(SubSeq(s, 1, Len(s) - 1), i, key), s[Len(s)])

RECURSIVE InsertByKey(_, _, _)
InsertByKey(s, i, key) ==
    IF Len(s) = 0 THEN <<i>>
    ELSE IF key[s[Len(s)] + 1] <= key[i + 1] THEN Append(s, i)
    ELSE Append(InsertByKey(SubSeq(s, 1, Len(s) - 1), i, key), s[Len(s)])

\* sorted(..., reverse=True): descending sums
RECURSIVE InsertByKeyDescending(_, _, _)
InsertByKeyDescending(s, i, key) ==
    IF Len(s) = 0 THEN <<i>>
    ELSE IF key[s[Len(s)] + 1] >= key[i + 1] THEN Append(s, i)
    ELSE Append(InsertByKeyDescending(SubSeq(s, 1, Len(s) - 1), i, key), s[Len(s)])

RECURSIVE SortedIndicesDescending(_, _)
SortedIndicesDescending(key, n) ==
    IF n <= 0 THEN <<>>
    ELSE InsertByKeyDescending(SortedIndicesDescending(key, n - 1), n - 1, key)

RECURSIVE SortedIndices(_, _)
SortedIndices(key, n) ==
    IF n <= 0 THEN <<>>
    ELSE InsertByKey(SortedIndices(key, n - 1), n - 1, key)

(***************************************************************************)
(* to_dense_matrix                                                         *)
(***************************************************************************)
\* range(start, end)
PyRange(start, end) == start..(end - 1)

\* np.zeros((rows, cols)) raises ValueError on a negative dimension
ZerosRaises(r, c) == r < 0 \/ c < 0

\* an index of the fill loop is out of range (IndexError)
FillRaises(r, c, vals, ridx, ptrs) ==
    \/ ColumnSumsRaises(ptrs, c)
    \/ \E col \in 0..(c - 1) : \E i \in PyRange(ptrs[col + 1], ptrs[col + 2]) :
          \/ ~PyIndexOK(ridx, i)
          \/ ~PyIndexOK(vals, i)
          \/ ~(-r <= PyIndex(ridx, i) /\ PyIndex(ridx, i) < r)

ToDenseRaises(r, c, vals, ridx, ptrs) ==
    ZerosRaises(r, c) \/ FillRaises(r, c, vals, ridx, ptrs)

SetMax(S) == CHOOSE x \in S : \A y \in S : y <= x

\* dense[row, col] = values[i], the last assignment to a cell wins
ToDense(r, c, vals, ridx, ptrs) ==
    [i \in 1..r |-> [j \in 1..c |->
        LET hits == {k \in PyRange(ptrs[j], ptrs[j + 1]) :
                        LET row == PyIndex(ridx, k)
                        IN (IF row < 0 THEN row + r ELSE row) = i - 1}
        IN IF hits = {} THEN 0 ELSE PyIndex(vals, SetMax(hits)).n]]

(***************************************************************************)
(* rearrange_columns: the rebuilt arrays                                   *)
(***************************************************************************)
RECURSIVE ConcatSlices(_, _, _)
ConcatSlices(s, ptrs, order) ==
    IF Len(order) = 0 THEN <<>>
    ELSE PySlice(s, ptrs[order[1] + 1], ptrs[order[1] + 2])
            \o ConcatSlices(s, ptrs, Tail(order))

\* the column pointers left as they were
StaleColPointers(ptrs, order, k) == SubSeq(ptrs, 1, k + 1)

RECURSIVE SortedColPointers(_, _, _)
SortedColPointers(ptrs, order, k) ==
    IF k <= 0 THEN <<0>>
    ELSE LET p == SortedColPointers(ptrs, order, k - 1)
             start == ptrs[order[k] + 1]
             end == ptrs[order[k] + 2]
         IN Append(p, p[Len(p)] + (end - start))

NoOut == [column_sums |-> <<>>, sorted_indices |-> <<>>, dense |-> <<>>]

(***************************************************************************)
(* The text of a matrix file: four lines of whitespace-separated tokens.   *)
(* A token is an integer literal ("2"), a float literal ("2.0") or text    *)
(* that is no number.  int() accepts only the first, float() the first two.*)
(***************************************************************************)
IntTok(n) == [kind |-> "int", n |-> n]

FloatTok(n) == [kind |-> "float", n |-> n]

BadTok == [kind |-> "bad", n |-> 0]

ParsesInt(t) == t.kind = "int"

\* the values line parsed with int()
ParsesFloatAsInt(t) == t.kind = "int"

ParsesFloat(t) == t.kind \in {"int", "float"}

AllInt(line) == \A i \in 1..Len(line) : ParsesInt(line[i])

AllFloat(line) == \A i \in 1..Len(line) : ParsesFloat(line[i])

\* list(map(int, line.split()))
ParseInts(line) == [i \in 1..Len(line) |-> line[i].n]

\* list(map(float, line.split()))
ParseFloats(line) == [i \in 1..Len(line) |-> FloatValue(line[i].n)]

\* int(input(...)): the whole line is one integer literal
ParsesIntLine(line) == Len(line) = 1 /\ ParsesInt(line[1])

\* str(x) of an element of values
StrValue(v) == IF v.float THEN FloatTok(v.n) ELSE IntTok(v.n)

\* " ".join(map(str, xs)) for a list of ints
StrInts(xs) == [i \in 1..Len(xs) |-> IntTok(xs[i])]

StrValues(vs) == [i \in 1..Len(vs) |-> StrValue(vs[i])]

NoFile ==
    [exists |-> FALSE, dims |-> <<>>, values |-> <<>>,
     row_indices |-> <<>>, col_pointers |-> <<>>]

\* what save_matrix_to_file writes
Written(r, c, vals, ridx, ptrs) ==
    [exists |-> TRUE, dims |-> <<IntTok(r), IntTok(c)>>,
     values |-> StrValues(vals), row_indices |-> StrInts(ridx),
     col_pointers |-> StrInts(ptrs)]

InputFile == "input.txt"

SavedFile == "matrix.txt"

OtherFile == "out.txt"

(***************************************************************************)
(* The invariants of the data model, as predicates of five fields.         *)
(***************************************************************************)
Inv1(vals, ridx) == Len(vals) = Len(ridx)

Inv2(c, ptrs) == Len(ptrs) = c + 1

Inv3(vals, ptrs) ==
    /\ Len(ptrs) >= 1
    /\ ptrs[1] = 0
    /\ ptrs[Len(ptrs)] = Len(vals)
    /\ \A i \in 1..(Len(ptrs) - 1) : ptrs[i] <= ptrs[i + 1]

Inv4(r, ridx) == \A k \in 1..Len(ridx) : 0 <= ridx[k] /\ ridx[k] < r

Inv1to4(r, c, vals, ridx, ptrs) ==
    Inv1(vals, ridx) /\ Inv2(c, ptrs) /\ Inv3(vals, ptrs) /\ Inv4(r, ridx)

Valid == Inv1to4(rows, cols, values, row_indices, col_pointers)

(***************************************************************************)
(* create_random_matrix(rows, cols, density).  draw gives, for the cell    *)
(* (col, row), the pair <<random.random(), random.randint(1, 100)>>.       *)
(***************************************************************************)
DensityOK(d) == 0 < d /\ d <= DensityOne

\* the entries of column col in the rows 0 .. k - 1
RECURSIVE GenColumn(_, _, _, _)
GenColumn(draw, col, k, d) ==
    IF k <= 0 THEN <<>>
    ELSE LET prev == GenColumn(draw, col, k - 1, d)
             s == draw[<<col, k - 1>>]
         IN IF s[1] < d
            THEN Append(prev, [row |-> k - 1, value |-> IntValue(s[2])])
            ELSE prev

\* the arrays not emptied before the columns are generated
RECURSIVE GenerateNoReset(_, _, _, _)
GenerateNoReset(draw, r, k, d) ==
    IF k <= 0
    THEN [values |-> values, row_indices |-> row_indices,
          col_pointers |-> col_pointers]
    ELSE LET g == GenerateNoReset(draw, r, k - 1, d)
             e == GenColumn(draw, k - 1, r, d)
             vs == g.values \o [i \in 1..Len(e) |-> e[i].value]
         IN [values |-> vs,
             row_indices |-> g.row_indices \o [i \in 1..Len(e) |-> e[i].row],
             col_pointers |-> Append(g.col_pointers, Len(vs))]

\* the three arrays after the columns 0 .. k - 1
RECURSIVE Generate(_, _, _, _)
Generate(draw, r, k, d) ==
    IF k <= 0
    THEN [values |-> <<>>, row_indices |-> <<>>, col_pointers |-> <<0>>]
    ELSE LET g == Generate(draw, r, k - 1, d)
             e == GenColumn(draw, k - 1, r, d)
             vs == g.values \o [i \in 1..Len(e) |-> e[i].value]
         IN [values |-> vs,
             row_indices |-> g.row_indices \o [i \in 1..Len(e) |-> e[i].row],
             col_pointers |-> Append(g.col_pointers, Len(vs))]

create_random_matrix(r, c, d, draw) ==
    /\ op' = "create_random_matrix"
    /\ filename' = ""
    /\ density' = d
    /\ out' = NoOut
    /\ streak' = 0
    /\ UNCHANGED disk
    /\ IF ~DensityOK(d)
       THEN /\ err' = "ValueError"
            /\ UNCHANGED matrix
       ELSE LET g == Generate(draw, r, c, d)
            IN /\ rows' = r
               /\ cols' = c
               /\ values' = g.values
               /\ row_indices' = g.row_indices
               /\ col_pointers' = g.col_pointers
               /\ err' = "none"

(***************************************************************************)
(* read_matrix_from_file(filename), the file holding f.  The four fields   *)
(* are assigned line by line; a line that does not parse raises ValueError *)
(* after the lines before it were assigned.                                *)
(***************************************************************************)
read_matrix_from_file(name, f) ==
    /\ op' = "read_matrix_from_file"
    /\ density' = 0
    /\ filename' = name
    /\ out' = NoOut
    /\ streak' = 0
    /\ UNCHANGED disk
    /\ IF ~f.exists
       THEN /\ err' = "FileNotFoundError"
            /\ UNCHANGED matrix
       ELSE IF ~(Len(f.dims) = 2 /\ AllInt(f.dims))
       THEN /\ err' = "ValueError"
            /\ UNCHANGED matrix
       ELSE /\ rows' = f.dims[1].n
            /\ cols' = f.dims[2].n
            /\ IF ~AllFloat(f.values)
               THEN /\ err' = "ValueError"
                    /\ UNCHANGED <<values, row_indices, col_pointers>>
               ELSE /\ values' = ParseFloats(f.values)
                    /\ IF ~AllInt(f.row_indices)
                       THEN /\ err' = "ValueError"
                            /\ UNCHANGED <<row_indices, col_pointers>>
                       ELSE /\ row_indices' = ParseInts(f.row_indices)
                            /\ IF ~AllInt(f.col_pointers)
                               THEN /\ err' = "ValueError"
                                    /\ UNCHANGED col_pointers
                               ELSE /\ col_pointers' = ParseInts(f.col_pointers)
                                    /\ err' = "none"

(***************************************************************************)
(* input_matrix_from_keyboard(), the five lines typed being k.             *)
(***************************************************************************)
input_matrix_from_keyboard(k) ==
    /\ op' = "input_matrix_from_keyboard"
    /\ density' = 0
    /\ filename' = ""
    /\ out' = NoOut
    /\ streak' = 0
    /\ UNCHANGED disk
    /\ IF ~ParsesIntLine(k.rows)
       THEN /\ err' = "ValueError"
            /\ UNCHANGED matrix
       ELSE /\ rows' = k.rows[1].n
            /\ IF ~ParsesIntLine(k.cols)
               THEN /\ err' = "ValueError"
                    /\ UNCHANGED <<cols, values, row_indices, col_pointers>>
               ELSE /\ cols' = k.cols[1].n
                    /\ IF ~AllFloat(k.values)
                       THEN /\ err' = "ValueError"
                            /\ UNCHANGED <<values, row_indices, col_pointers>>
                       ELSE /\ values' = ParseFloats(k.values)
                            /\ IF ~AllInt(k.row_indices)
                               THEN /\ err' = "ValueError"
                                    /\ UNCHANGED <<row_indices, col_pointers>>
                               ELSE /\ row_indices' = ParseInts(k.row_indices)
                                    /\ IF ~AllInt(k.col_pointers)
                                       THEN /\ err' = "ValueError"
                                            /\ UNCHANGED col_pointers
                                       ELSE /\ col_pointers' = ParseInts(k.col_pointers)
                                            /\ err' = "none"

(***************************************************************************)
(* save_matrix_to_file(filename); writable tells whether open() succeeds.  *)
(***************************************************************************)
save_matrix_to_file(name, writable) ==
    /\ op' = "save_matrix_to_file"
    /\ density' = 0
    /\ filename' = name
    /\ out' = NoOut
    /\ streak' = 0
    /\ UNCHANGED matrix
    /\ IF ~writable
       THEN /\ err' = "OSError"
            /\ UNCHANGED disk
       ELSE /\ err' = "none"
            /\ disk' = IF name = SavedFile
                       THEN Written(rows, cols, values, row_indices, col_pointers)
                       ELSE disk

(***************************************************************************)
(* calculate_column_sums()                                                 *)
(***************************************************************************)
calculate_column_sums ==
    /\ op' = "calculate_column_sums"
    /\ density' = 0
    /\ filename' = ""
    /\ streak' = 0
    /\ UNCHANGED <<matrix, disk>>
    /\ IF ColumnSumsRaises(col_pointers, cols)
       THEN /\ err' = "IndexError"
            /\ out' = NoOut
       ELSE /\ err' = "none"
            /\ out' = [NoOut EXCEPT
                         !.column_sums = ColumnSums(values, col_pointers, cols)]

\* sort_columns_by_sum storing the sorted arrays
sort_columns_by_sum_in_place ==
    /\ op' = "sort_columns_by_sum"
    /\ density' = 0
    /\ filename' = ""
    /\ streak' = 0
    /\ UNCHANGED <<rows, cols, disk>>
    /\ IF ColumnSumsRaises(col_pointers, cols)
       THEN /\ err' = "IndexError"
            /\ out' = NoOut
            /\ UNCHANGED <<values, row_indices, col_pointers>>
       ELSE LET column_sums == ColumnSums(values, col_pointers, cols)
                sorted_indices == SortedIndices(column_sums, cols)
            IN /\ err' = "none"
               /\ out' = [NoOut EXCEPT
                            !.column_sums = column_sums,
                            !.sorted_indices = sorted_indices]
               /\ values' = ConcatSlices(values, col_pointers, sorted_indices)
               /\ row_indices' =
                     ConcatSlices(row_indices, col_pointers, sorted_indices)
               /\ col_pointers' =
                     SortedColPointers(col_pointers, sorted_indices, cols)

(***************************************************************************)
(* sort_columns_by_sum(): prints the order, changes nothing                *)
(***************************************************************************)
sort_columns_by_sum ==
    /\ op' = "sort_columns_by_sum"
    /\ density' = 0
    /\ filename' = ""
    /\ streak' = 0
    /\ UNCHANGED <<matrix, disk>>
    /\ IF ColumnSumsRaises(col_pointers, cols)
       THEN /\ err' = "IndexError"
            /\ out' = NoOut
       ELSE LET column_sums == ColumnSums(values, col_pointers, cols)
            IN /\ err' = "none"
               /\ out' = [NoOut EXCEPT
                            !.column_sums = column_sums,
                            !.sorted_indices = SortedIndices(column_sums, cols)]

(***************************************************************************)
(* to_dense_matrix()                                                       *)
(***************************************************************************)
to_dense_matrix ==
    /\ op' = "to_dense_matrix"
    /\ density' = 0
    /\ filename' = ""
    /\ streak' = 0
    /\ UNCHANGED <<matrix, disk>>
    /\ IF ZerosRaises(rows, cols)
       THEN /\ err' = "ValueError"
            /\ out' = NoOut
       ELSE IF FillRaises(rows, cols, values, row_indices, col_pointers)
       THEN /\ err' = "IndexError"
            /\ out' = NoOut
       ELSE /\ err' = "none"
            /\ out' = [NoOut EXCEPT
                         !.dense = ToDense(rows, cols, values, row_indices,
                                           col_pointers)]

(***************************************************************************)
(* rearrange_columns(): the sums and the dense copy are taken first (each  *)
(* may raise), the three arrays are replaced together, then the dense copy *)
(* and the sums of the new arrays are taken for the report.                *)
(***************************************************************************)
rearrange_columns ==
    /\ op' = "rearrange_columns"
    /\ density' = 0
    /\ filename' = ""
    /\ UNCHANGED <<rows, cols, disk>>
    /\ IF ColumnSumsRaises(col_pointers, cols)
       THEN /\ err' = "IndexError"
            /\ out' = NoOut
            /\ streak' = 0
            /\ UNCHANGED <<values, row_indices, col_pointers>>
       ELSE IF ToDenseRaises(rows, cols, values, row_indices, col_pointers)
       THEN /\ err' = IF ZerosRaises(rows, cols) THEN "ValueError" ELSE "IndexError"
            /\ out' = NoOut
            /\ streak' = 0
            /\ UNCHANGED <<values, row_indices, col_pointers>>
       ELSE LET column_sums == ColumnSums(values, col_pointers, cols)
                sorted_indices == SortedIndices(column_sums, cols)
                sorted_values == ConcatSlices(values, col_pointers, sorted_indices)
                sorted_row_indices ==
                    ConcatSlices(row_indices, col_pointers, sorted_indices)
                sorted_col_pointers ==
                    SortedColPointers(col_pointers, sorted_indices, cols)
            IN /\ values' = sorted_values
               /\ row_indices' = sorted_row_indices
               /\ col_pointers' = sorted_col_pointers
               /\ IF ToDenseRaises(rows, cols, sorted_values, sorted_row_indices,
                                   sorted_col_pointers)
                  THEN /\ err' = "IndexError"
                       /\ out' = NoOut
                       /\ streak' = 0
                  ELSE /\ err' = "none"
                       /\ streak' = IF streak < 2 THEN streak + 1 ELSE 2
                       /\ out' = [column_sums |->
                                     ColumnSums(sorted_values, sorted_col_pointers, cols),
                                  sorted_indices |-> sorted_indices,
                                  dense |-> ToDense(rows, cols, sorted_values,
                                                    sorted_row_indices,
                                                    sorted_col_pointers)]

(***************************************************************************)
(* Inputs.                                                                 *)
(***************************************************************************)
\* the column pointers of c columns over n entries
Pointers(c, n) ==
    IF c < 0 THEN {}
    ELSE {p \in [1..(c + 1) -> 0..n] :
            /\ p[1] = 0
            /\ p[c + 1] = n
            /\ \A i \in 1..c : p[i] <= p[i + 1]}

\* the numeric values of the entries of the matrices below
ValueSamples == {1, 2}

\* the shapes (rows, cols, entries) of the matrices the column operations
\* start from
Shapes == (-1..MaxRows) \X (0..MaxCols) \X (0..MaxNnz)

\* the matrix of the values v, row indices ri and column pointers p, as a
\* load leaves it
Matrix(r, c, v, ri, p) ==
    [rows |-> r, cols |-> c, values |-> [i \in 1..Len(v) |-> FloatValue(v[i])],
     row_indices |-> ri, col_pointers |-> p]

\* rows=3, cols=3, values=[5,1,9], row_indices=[0,2,1], col_pointers=[0,1,2,3]
ScenarioMatrix ==
    [rows |-> 3, cols |-> 3,
     values |-> <<FloatValue(5), FloatValue(1), FloatValue(9)>>,
     row_indices |-> <<0, 2, 1>>, col_pointers |-> <<0, 1, 2, 3>>]

\* the tokens of the values line of the files below: "1" and "2.0"
ValueTokens == {IntTok(1), FloatTok(2)}

FilesOfShape(r, c, n) ==
    {[exists |-> TRUE, dims |-> <<IntTok(r), IntTok(c)>>, values |-> v,
      row_indices |-> StrInts(ri), col_pointers |-> StrInts(p)] :
        v \in [1..n -> ValueTokens], ri \in [1..n -> 0..(r - 1)],
        p \in Pointers(c, n)}

\* files whose data satisfy invariants 1-4
ValidFiles ==
    UNION {FilesOfShape(s[1], s[2], s[3]) :
             s \in (0..MaxFileRows) \X (0..MaxFileCols) \X (0..MaxFileNnz)}

\* whether a file that parses holds data satisfying invariants 1-4
WellFormed(f) ==
    Inv1to4(f.dims[1].n, f.dims[2].n, ParseFloats(f.values),
            ParseInts(f.row_indices), ParseInts(f.col_pointers))

DropLastPointer(f) ==
    [f EXCEPT !.col_pointers = SubSeq(@, 1, Len(@) - 1)]

ExtraRowIndex(f) == [f EXCEPT !.row_indices = Append(@, IntTok(0))]

RowOutOfRange(f) ==
    [f EXCEPT !.row_indices = [i \in 1..Len(@) |-> f.dims[1]]]

ShiftedPointers(f) ==
    [f EXCEPT !.col_pointers = [i \in 1..Len(@) |-> IntTok(@[i].n + 1)]]

ReversedPointers(f) ==
    [f EXCEPT !.col_pointers = [i \in 1..Len(@) |-> @[Len(@) + 1 - i]]]

NegativeDims(f) == [f EXCEPT !.dims = <<IntTok(-1), IntTok(-1)>>]

\* files that parse and whose data violate one of invariants 1-4
MalformedFiles ==
    {g \in UNION {{DropLastPointer(f), ExtraRowIndex(f), RowOutOfRange(f),
                   ShiftedPointers(f), ReversedPointers(f), NegativeDims(f)} :
                     f \in ValidFiles} : ~WellFormed(g)}

FullFiles == FilesOfShape(MaxFileRows, MaxFileCols, MaxFileNnz)

\* files with a line that does not parse
UnparsableFiles ==
    UNION {{[f EXCEPT !.dims = <<f.dims[1]>>],
            [f EXCEPT !.dims = Append(@, BadTok)],
            [f EXCEPT !.values = Append(@, BadTok)],
            [f EXCEPT !.row_indices = Append(@, FloatTok(0))],
            [f EXCEPT !.col_pointers = Append(@, BadTok)]} : f \in FullFiles}

ParsableFiles == ValidFiles \cup MalformedFiles

Files == ParsableFiles \cup UnparsableFiles \cup {NoFile}

KeyboardOf(f) ==
    [rows |-> SubSeq(f.dims, 1, 1), cols |-> SubSeq(f.dims, 2, Len(f.dims)),
     values |-> f.values, row_indices |-> f.row_indices,
     col_pointers |-> f.col_pointers]

KeyboardInputs ==
    {KeyboardOf(f) :
        f \in FullFiles \cup {DropLastPointer(g) : g \in FullFiles}
                \cup UnparsableFiles}
      \cup {[KeyboardOf(f) EXCEPT !.rows = <<BadTok>>] : f \in FullFiles}

\* random.random() and random.randint(1, 100)
RandomSamples == {0, 5}

RandIntSamples == {RandIntLow, RandIntHigh}

DensitySamples == {-5, 0, 5, DensityOne, 15}

RandomShapes ==
    {s \in (-1..MaxRandDim) \X (-1..MaxRandDim) :
        s[1] <= 0 \/ s[2] <= 0 \/ s[1] * s[2] <= MaxRandCells}

Draws(r, c) == [(0..(c - 1)) \X (0..(r - 1)) -> RandomSamples \X RandIntSamples]

(***************************************************************************)
(* The program: a default-constructed matrix and the public methods in any *)
(* order.                                                                  *)
(***************************************************************************)
Init ==
    /\ rows = 0
    /\ cols = 0
    /\ values = <<>>
    /\ row_indices = <<>>
    /\ col_pointers = <<0>>
    /\ disk = NoFile
    /\ op = "__init__"
    /\ filename = ""
    /\ density = 0
    /\ err = "none"
    /\ out = NoOut
    /\ streak = 0

\* no random number is drawn when the density is rejected
GenerateRandom ==
    \E s \in RandomShapes, d \in DensitySamples :
        \E draw \in IF DensityOK(d) THEN Draws(s[1], s[2]) ELSE {<<>>} :
            create_random_matrix(s[1], s[2], d, draw)

LoadFile == \E f \in Files : read_matrix_from_file(InputFile, f)

Keyboard == \E k \in KeyboardInputs : input_matrix_from_keyboard(k)

SaveOther == \E writable \in BOOLEAN : save_matrix_to_file(OtherFile, writable)

Next ==
    \/ GenerateRandom
    \/ LoadFile
    \/ Keyboard
    \/ SaveOther
    \/ calculate_column_sums
    \/ sort_columns_by_sum
    \/ to_dense_matrix
    \/ rearrange_columns

Spec == Init /\ [][Next]_vars

(***************************************************************************)
(* The column operations on every valid matrix within the bounds: the      *)
(* first call loads the matrix from a file, the others follow in any order.*)
(***************************************************************************)
FileOf(m) == Written(m.rows, m.cols, m.values, m.row_indices, m.col_pointers)

LoadValid ==
    /\ op = "__init__"
    /\ \/ \E s \in Shapes :
             \E v \in [1..s[3] -> ValueSamples], ri \in [1..s[3] -> 0..(s[1] - 1)],
                p \in Pointers(s[2], s[3]) :
                read_matrix_from_file(InputFile, FileOf(Matrix(s[1], s[2], v, ri, p)))
       \/ read_matrix_from_file(InputFile, FileOf(ScenarioMatrix))

NextValid ==
    \/ LoadValid
    \/ SaveOther
    \/ calculate_column_sums
    \/ sort_columns_by_sum
    \/ to_dense_matrix
    \/ rearrange_columns

SpecValid == Init /\ [][NextValid]_vars

(***************************************************************************)
(* Saving and loading again: the first call loads a file that parses, then *)
(* the matrix is saved to SavedFile and read back from it, in any order.   *)
(***************************************************************************)
LoadParsable ==
    /\ op = "__init__"
    /\ \E f \in ParsableFiles : read_matrix_from_file(InputFile, f)

SaveMatrix == \E writable \in BOOLEAN : save_matrix_to_file(SavedFile, writable)

LoadSaved == read_matrix_from_file(SavedFile, disk)

NextRoundTrip ==
    \/ LoadParsable
    \/ SaveMatrix
    \/ LoadSaved

SpecRoundTrip == Init /\ [][NextRoundTrip]_vars

(***************************************************************************)
(* Generation over the states an earlier generation leaves and the states  *)
(* a first load of a file of the largest shape leaves, the file well       *)
(* formed or one pointer short.                                            *)
(***************************************************************************)
LoadFull ==
    /\ op = "__init__"
    /\ \E f \in FullFiles \cup {DropLastPointer(g) : g \in FullFiles} :
          read_matrix_from_file(InputFile, f)

NextRandom ==
    \/ LoadFull
    \/ GenerateRandom

SpecRandom == Init /\ [][NextRandom]_vars

(***************************************************************************)
(* One construction of the matrix (generated, read from a file or typed),  *)
(* then the other methods in any order.                                    *)
(***************************************************************************)
FirstGenerate == op = "__init__" /\ GenerateRandom

FirstLoad == op = "__init__" /\ LoadFile

FirstKeyboard == op = "__init__" /\ Keyboard

NextOnce ==
    \/ FirstGenerate
    \/ FirstLoad
    \/ FirstKeyboard
    \/ SaveOther
    \/ calculate_column_sums
    \/ sort_columns_by_sum
    \/ to_dense_matrix
    \/ rearrange_columns

SpecOnce == Init /\ [][NextOnce]_vars

(***************************************************************************)
(* Properties.                                                             *)
(***************************************************************************)
NonDecreasing(s) == \A i \in 1..(Len(s) - 1) : s[i] <= s[i + 1]

\* the sum of vals[a .. b - 1] (0-based, half open)
RECURSIVE RangeSum(_, _, _)
RangeSum(vals, a, b) ==
    IF b <= a THEN 0 ELSE vals[b].n + RangeSum(vals, a, b - 1)

RECURSIVE SeqSum(_)
SeqSum(s) == IF Len(s) = 0 THEN 0 ELSE s[Len(s)] + SeqSum(SubSeq(s, 1, Len(s) - 1))

\* s[a .. b - 1] (0-based, half open)
Slice(s, a, b) == SubSeq(s, a + 1, b)

\* the multiset of the (value, row index) pairs
EntryBag(vals, ridx) ==
    LET pair(k) == <<vals[k], ridx[k]>>
    IN [e \in {pair(k) : k \in 1..Len(vals)} |->
          Cardinality({k \in 1..Len(vals) : pair(k) = e})]

Identity(n) == [i \in 1..n |-> i - 1]

\* the orders of 0 .. n - 1 ascending by sum, equal sums by ascending index
StableOrders(sums, n) ==
    {p \in [1..n -> 0..(n - 1)] :
        \A i, j \in 1..n : i < j =>
            \/ sums[p[i] + 1] < sums[p[j] + 1]
            \/ sums[p[i] + 1] = sums[p[j] + 1] /\ p[i] < p[j]}

ColumnSizes(ptrs) == {ptrs[c + 1] - ptrs[c] : c \in 1..(Len(ptrs) - 1)}

\* C1: rearrange_columns on a matrix satisfying invariants 1-4 leaves the
\* column sums non-decreasing, the multiset of (value, row index) pairs, the
\* length of values and the last column pointer as they were.
C1_RearrangeSortsSums ==
    [][(op' = "rearrange_columns" /\ Valid) =>
          /\ NonDecreasing(ColumnSums(values', col_pointers', cols'))
          /\ EntryBag(values', row_indices') = EntryBag(values, row_indices)
          /\ Len(values') = Len(values)
          /\ col_pointers'[Len(col_pointers')] = col_pointers[Len(col_pointers)]
      ]_vars

\* a rearrangement that moved columns of a valid matrix with several entries
\* and different sums
C1_Witness ==
    /\ op = "rearrange_columns"
    /\ err = "none"
    /\ Valid
    /\ Len(values) >= 2
    /\ out.sorted_indices # Identity(cols)
    /\ Cardinality({out.column_sums[c] : c \in 1..cols}) >= 2

\* C2: a load either succeeds with data satisfying invariants 1-4 or fails
\* and leaves rows, cols, values, row_indices and col_pointers as they were.
C2_LoadValidatesOrLeavesState ==
    [][op' = "read_matrix_from_file" =>
          IF err' = "none"
          THEN Inv1to4(rows', cols', values', row_indices', col_pointers')
          ELSE matrix' = matrix
      ]_vars

\* C3: invariants 1-4 hold in every state reachable by the public methods.
C3_InvariantsHold == Valid

\* C4: rearrange_columns on a matrix satisfying invariants 1-4 puts the
\* columns in the order ascending by sum, equal sums by ascending original
\* index; the slice of values and of row_indices at each new position is the
\* original slice of the column placed there; rows and cols stay.
C4_RearrangeStableSlices ==
    [][(op' = "rearrange_columns" /\ Valid) =>
          LET sums == [c \in 1..cols |->
                         RangeSum(values, col_pointers[c], col_pointers[c + 1])]
          IN \E p \in StableOrders(sums, cols) :
                /\ err' = "none" => out'.sorted_indices = p
                /\ rows' = rows
                /\ cols' = cols
                /\ Len(col_pointers') = cols + 1
                /\ col_pointers'[1] = 0
                /\ \A k \in 1..cols :
                      /\ Slice(values', col_pointers'[k], col_pointers'[k + 1])
                           = Slice(values, col_pointers[p[k] + 1],
                                   col_pointers[p[k] + 2])
                      /\ Slice(row_indices', col_pointers'[k], col_pointers'[k + 1])
                           = Slice(row_indices, col_pointers[p[k] + 1],
                                   col_pointers[p[k] + 2])
      ]_vars

\* the scenario: values [5,1,9], row_indices [0,2,1] rearranged in the order
\* [1,0,2] to values [1,5,9], row_indices [2,0,1], col_pointers [0,1,2,3]
C4_Witness ==
    /\ op = "rearrange_columns"
    /\ err = "none"
    /\ rows = 3
    /\ cols = 3
    /\ out.sorted_indices = <<1, 0, 2>>
    /\ values = <<FloatValue(1), FloatValue(5), FloatValue(9)>>
    /\ row_indices = <<2, 0, 1>>
    /\ col_pointers = <<0, 1, 2, 3>>

\* C5: a second rearrange_columns right after a first, on a matrix satisfying
\* invariants 1-4, applies the identity order and changes no field.
C5_RearrangeTwice ==
    [][(op = "rearrange_columns" /\ op' = "rearrange_columns" /\ Valid) =>
          /\ matrix' = matrix
          /\ err' = "none" => out'.sorted_indices = Identity(cols)
      ]_vars

\* two successive rearrangements of a matrix with two columns of equal
\* positive sum and columns of different sizes
C5_Witness ==
    /\ op = "rearrange_columns"
    /\ streak = 2
    /\ Valid
    /\ Cardinality(ColumnSizes(col_pointers)) >= 2
    /\ \E a, b \in 1..cols : a # b /\ out.column_sums[a] = out.column_sums[b]
                               /\ out.column_sums[a] > 0

\* C6: create_random_matrix with a density in (0, 1] succeeds and, for
\* rows >= 0 and cols >= 0, leaves invariants 1-4, integer values in
\* [1, 100] only and strictly ascending row indices within each column.
C6_RandomMatrixValid ==
    (op = "create_random_matrix" /\ DensityOK(density)) =>
        /\ err = "none"
        /\ (rows >= 0 /\ cols >= 0) =>
              /\ Valid
              /\ \A k \in 1..Len(values) :
                    /\ ~values[k].float
                    /\ RandIntLow <= values[k].n
                    /\ values[k].n <= RandIntHigh
              /\ \A c \in 1..cols :
                    \A k \in (col_pointers[c] + 1)..(col_pointers[c + 1] - 1) :
                        row_indices[k] < row_indices[k + 1]

\* a generated matrix with a column of two entries and an empty column
C6_Witness ==
    /\ op = "create_random_matrix"
    /\ err = "none"
    /\ rows = 2
    /\ cols = 2
    /\ Valid
    /\ ColumnSizes(col_pointers) = {0, 2}

\* C7: create_random_matrix with a density outside (0, 1] or a negative rows
\* or cols is rejected and leaves the five fields as they were: a call that
\* returns had a valid density and non-negative rows and cols (the rows and
\* cols it stored), a call that fails changed nothing.
C7_InvalidParameterRejected ==
    [][op' = "create_random_matrix" =>
          IF err' = "none"
          THEN DensityOK(density') /\ rows' >= 0 /\ cols' >= 0
          ELSE matrix' = matrix
      ]_vars

\* C8: on a matrix satisfying invariants 1-4 calculate_column_sums returns
\* cols sums, the c-th the sum of the values of column c, together the sum of
\* all values.
C8_ColumnSums ==
    (op = "calculate_column_sums" /\ Valid) =>
        /\ err = "none"
        /\ Len(out.column_sums) = cols
        /\ \A c \in 1..cols :
              out.column_sums[c]
                = RangeSum(values, col_pointers[c], col_pointers[c + 1])
        /\ SeqSum(out.column_sums) = RangeSum(values, 0, Len(values))

\* sums of a matrix with an empty column and a column of several entries
C8_Witness ==
    /\ op = "calculate_column_sums"
    /\ err = "none"
    /\ Valid
    /\ 0 \in ColumnSizes(col_pointers)
    /\ \E n \in ColumnSizes(col_pointers) : n >= 2

\* C9: reading back the file a save has just written succeeds and leaves
\* rows, cols, values, row_indices and col_pointers as they were at the save.
C9_SaveLoadRoundTrip ==
    [][(/\ op = "save_matrix_to_file" /\ err = "none" /\ filename = SavedFile
        /\ op' = "read_matrix_from_file" /\ filename' = SavedFile) =>
          /\ err' = "none"
          /\ matrix' = matrix
      ]_vars

\* a matrix with a stored entry read back from the file it was saved to
C9_Witness ==
    /\ op = "read_matrix_from_file"
    /\ filename = SavedFile
    /\ err = "none"
    /\ Len(values) >= 1
    /\ disk = Written(rows, cols, values, row_indices, col_pointers)

ReadOnlyOps ==
    {"calculate_column_sums", "sort_columns_by_sum", "to_dense_matrix",
     "save_matrix_to_file"}

ConstructionOps ==
    {"create_random_matrix", "read_matrix_from_file", "input_matrix_from_keyboard"}

\* C10: calculate_column_sums, sort_columns_by_sum, to_dense_matrix and
\* save_matrix_to_file change none of the five fields; only the construction
\* methods change rows or cols.
C10_ReadOnlyFrame ==
    [][/\ op' \in ReadOnlyOps => matrix' = matrix
       /\ (rows' # rows \/ cols' # cols) => op' \in ConstructionOps
      ]_vars

\* sort_columns_by_sum showing an order that is not the stored one
C10_Witness ==
    /\ op = "sort_columns_by_sum"
    /\ err = "none"
    /\ Len(values) >= 1
    /\ out.sorted_indices # Identity(cols)

====
